---- MODULE Spec2Model ----
(***************************************************************************)
(* The per-company train/evaluate pipeline of                              *)
(* algorithmic_trading_on_nifty_stock_data_.py: process_and_train and the  *)
(* module-level driver loop that calls it once per company symbol.         *)
(*                                                                         *)
(* Numbers.  Column values are integers; a scaled value is an exact        *)
(* fraction <<num, den>> (den > 0, lowest terms) or NaN, so floating-point *)
(* rounding is not modelled.  The weights of the network are not modelled  *)
(* numerically: a model object carries its mode, the number of optimizer   *)
(* steps applied to it and the random draw that initialised it, and a      *)
(* prediction records which rows it was computed from, in which mode and   *)
(* after how many steps.                                                   *)
(*                                                                         *)
(* Row identity.  Every row keeps the field ix, its position in the data   *)
(* table (the pandas index label, which is also the date order).  numpy    *)
(* arrays drop the label but keep the position; ix is carried along so     *)
(* that the origin of every row of every segment and batch stays visible.  *)
(***************************************************************************)
EXTENDS Integers, Sequences, FiniteSets, TLC

\* ------------------------------------------------------------ bounds
\* Column values of the exhaustively enumerated short series are 0..MaxVal.
MaxVal == 2
\* The exhaustively enumerated short series have 3..MaxShort rows.
MaxShort == 4
\* The long series (values fixed by position) have 0..MaxRows rows.
MaxRows == 100
\* The driver's data tables hold up to MaxCompanies symbols.
MaxCompanies == 6

\* --------------------------------------------------- program constants
n_epochs == 50
batch_size == 64
\* size=5 of np.random.choice
n_visualize == 5
\* test_size=0.2 and test_size=0.1 as exact fractions
outer_test_size == <<1, 5>>
inner_test_size == <<1, 10>>
\* the columns left after X = company_data.drop(columns=[...])
FeatureCols == {"Open", "High", "Low", "Last", "Close"}
LabelCol == "VWAP"

\* -------------------------------------------------------------- state
VARIABLES
    data,                 \* the table read from NIFTY50_all.csv
    dpc,                  \* where the module-level code stands
    companies,            \* data['Symbol'].unique()
    visualize_companies,  \* the symbols np.random.choice picked
    results,              \* results: symbol -> {'Train RMSE', 'Test RMSE'}
    loop_i,               \* how many companies the for loop has taken
    frame,                \* the locals of process_and_train; a local holds what
                          \* it was last bound to until the code binds it again
    torch_rng,            \* draws taken from torch's global generator, which
                          \* the script neither seeds nor resets
    output                \* what was plotted and displayed, in order

vars == <<data, dpc, companies, visualize_companies, results, loop_i, frame,
          torch_rng, output>>

\* ----------------------------------------------------------- fractions
NaN == <<0, 0>>

IsNaN(q) == q[2] = 0

Abs(a) == IF a < 0 THEN -a ELSE a

RECURSIVE Gcd(_, _)
Gcd(a, b) == IF b = 0 THEN a ELSE Gcd(b, a % b)

\* a / b: division by zero gives no number
Frac(a, b) ==
    IF b = 0 THEN NaN
    ELSE LET g == Gcd(Abs(a), Abs(b))
             s == IF b < 0 THEN -1 ELSE 1
         IN  <<(s * a) \div g, (s * b) \div g>>

FromInt(a) == <<a, 1>>

FMul(p, q) == IF IsNaN(p) \/ IsNaN(q) THEN NaN ELSE Frac(p[1] * q[1], p[2] * q[2])

FAdd(p, q) ==
    IF IsNaN(p) \/ IsNaN(q) THEN NaN ELSE Frac(p[1] * q[2] + q[1] * p[2], p[2] * q[2])

FSub(p, q) ==
    IF IsNaN(p) \/ IsNaN(q) THEN NaN ELSE Frac(p[1] * q[2] - q[1] * p[2], p[2] * q[2])

FDiv(p, q) == IF IsNaN(p) \/ IsNaN(q) THEN NaN ELSE Frac(p[1] * q[2], p[2] * q[1])

FLeq(p, q) == ~IsNaN(p) /\ ~IsNaN(q) /\ p[1] * q[2] <= q[1] * p[2]

FLess(p, q) == ~IsNaN(p) /\ ~IsNaN(q) /\ p[1] * q[2] < q[1] * p[2]

Zero == FromInt(0)
One == FromInt(1)

\* ------------------------------------------------------------- helpers
Range(s) == {s[i] : i \in DOMAIN s}

SetMin(S) == CHOOSE m \in S : \A x \in S : m <= x

SetMax(S) == CHOOSE m \in S : \A x \in S : x <= m

CeilDiv(a, b) == (a + b - 1) \div b

\* the ix fields of a sequence of rows, in order
IxOf(rows) == [i \in DOMAIN rows |-> rows[i].ix]

\* the symbols of a table in order of first appearance: data['Symbol'].unique()
RECURSIVE Unique(_)
Unique(t) ==
    IF t = <<>> THEN <<>>
    ELSE LET u == Unique(SubSeq(t, 1, Len(t) - 1))
             s == t[Len(t)].Symbol
         IN  IF s \in Range(u) THEN u ELSE Append(u, s)

\* -------------------------------------------------------------- inputs
\* the Symbol column's values
SymbolNames == <<"S1", "S2", "S3", "S4", "S5", "S6", "S7", "S8">>

\* one record of NIFTY50_all.csv: the columns process_and_train keeps, all
\* derived from one price level v (the dropped columns are never read)
Record(sym, v) ==
    [Symbol |-> sym, Open |-> v, High |-> v + 1, Low |-> v \div 2,
     Last |-> 2 * v, Close |-> v, VWAP |-> 3 * v + 1]

\* every series of 3..MaxShort rows of one symbol with levels 0..MaxVal
ShortTables ==
    UNION {{[i \in 1..n |-> Record(SymbolNames[1], vs[i])] : vs \in [1..n -> 0..MaxVal]}
           : n \in 3..MaxShort}

\* a steadily rising series of n rows of one symbol, n in 0..MaxRows
LongTables == {[i \in 1..n |-> Record(SymbolNames[1], i)] : n \in 0..MaxRows}

\* the tables process_and_train is called on directly
CallTables == ShortTables \cup LongTables

\* rows of company j (of k) in a driver table: company `short` (0: none) has
\* only `few` rows, the others 3 or 4
RowsOf(j, short, few) == IF j = short THEN few ELSE 3 + (j % 2)

\* a table of k companies whose rows are interleaved by date; company j's
\* r-th level is j + r, except that its last row drops to level 0
DriverTable(k, short, few) ==
    LET grid == [p \in 1..(4 * k) |-> [j |-> ((p - 1) % k) + 1, r |-> ((p - 1) \div k) + 1]]
        Keep(c) == c.r <= RowsOf(c.j, short, few)
        Row(c) == Record(SymbolNames[c.j],
                         IF c.r = RowsOf(c.j, short, few) THEN 0 ELSE c.j + c.r)
        kept == SelectSeq(grid, Keep)
    IN  [p \in DOMAIN kept |-> Row(kept[p])]

DriverTables ==
    {DriverTable(k, 0, 0) : k \in (n_visualize - 1)..MaxCompanies}
    \cup {DriverTable(k, s, few) : k \in {n_visualize}, s \in 1..n_visualize, few \in 1..2}
    \cup {DriverTable(MaxCompanies, s, 2) : s \in {1, MaxCompanies}}

\* ------------------------------------------- sklearn: train_test_split
\* _validate_shuffle_split with a float test_size and train_size=None:
\* n_test = ceil(test_size * n), n_train = n - n_test, and a ValueError when
\* the train set would be empty
\* mutant: the test size rounded down instead of up
NTest_floor(n, size) == (n * size[1]) \div size[2]

NTest(n, size) == CeilDiv(n * size[1], size[2])

\* mutant: an empty train set is let through
SplitRaises_never(n, size) == n - NTest(n, size) < 0

SplitRaises(n, size) == n - NTest(n, size) <= 0

\* shuffle=False: train = arange(n_train), test = arange(n_train, n_train + n_test)
TrainIndices(n, size) == 1..(n - NTest(n, size))

\* mutant: the test range starts on the last train row
TestIndices_overlap(n, size) == (n - NTest(n, size))..n

TestIndices(n, size) == ((n - NTest(n, size)) + 1)..n

Take(rows, S) == SelectSeq([i \in DOMAIN rows |-> [i |-> i, row |-> rows[i]]],
                           LAMBDA e : e.i \in S)

Indexing(rows, S) == LET t == Take(rows, S) IN [i \in DOMAIN t |-> t[i].row]

\* train_test_split(a, test_size=size, shuffle=False) on one array
train_test_split(rows, size) ==
    [raises |-> SplitRaises(Len(rows), size),
     train |-> Indexing(rows, TrainIndices(Len(rows), size)),
     test |-> Indexing(rows, TestIndices(Len(rows), size))]

\* --------------------------------------------- sklearn: MinMaxScaler
\* MinMaxScaler(): feature_range=(0, 1), clip=False, not fitted; n_fits counts
\* the calls of fit on this object
MinMaxScaler == [n_fits |-> 0, data_min |-> <<>>, data_max |-> <<>>,
                 scale_ |-> <<>>, min_ |-> <<>>]

Cols(rows) == IF rows = <<>> THEN {} ELSE DOMAIN rows[1].f

\* mutant: the range is used as it is
handle_zeros_in_scale_none(r) == r

\* _handle_zeros_in_scale: a zero range is replaced by 1
handle_zeros_in_scale(r) == IF r = 0 THEN 1 ELSE r

\* fit: _reset(), then per-column min and max of the rows given, scale_ =
\* (1 - 0) / handle_zeros(data_max - data_min), min_ = 0 - data_min * scale_
fit(self, rows) ==
    LET dmin == [c \in Cols(rows) |-> SetMin({rows[i].f[c] : i \in DOMAIN rows})]
        dmax == [c \in Cols(rows) |-> SetMax({rows[i].f[c] : i \in DOMAIN rows})]
        scale == [c \in Cols(rows) |-> Frac(1, handle_zeros_in_scale(dmax[c] - dmin[c]))]
    IN  [n_fits |-> self.n_fits + 1,
         data_min |-> dmin, data_max |-> dmax, scale_ |-> scale,
         min_ |-> [c \in Cols(rows) |-> FSub(Zero, FMul(FromInt(dmin[c]), scale[c]))]]

\* X * scale_ + min_, no clipping; the values of rows are integers
ScaleRow(self, row) ==
    [ix |-> row.ix,
     f |-> [c \in DOMAIN row.f |-> FAdd(FMul(FromInt(row.f[c]), self.scale_[c]), self.min_[c])]]

\* mutant: clip=True, the scaled values cut to the feature range
transform_clip(self, rows) ==
    LET Clip(q) == IF FLess(q, Zero) THEN Zero ELSE IF FLess(One, q) THEN One ELSE q
    IN  [self |-> self,
         out |-> [i \in DOMAIN rows |->
                    [ix |-> rows[i].ix,
                     f |-> [c \in DOMAIN rows[i].f |-> Clip(ScaleRow(self, rows[i]).f[c])]]]]

\* mutant: fit_transform called where transform is meant
Refit(fitted, rows) ==
    [self |-> fitted, out |-> [i \in DOMAIN rows |-> ScaleRow(fitted, rows[i])]]

transform_refit(self, rows) == Refit(fit(self, rows), rows)

\* transform leaves the scaler as it is
transform(self, rows) ==
    [self |-> self, out |-> [i \in DOMAIN rows |-> ScaleRow(self, rows[i])]]

fit_transform(self, rows) == transform(fit(self, rows), rows)

\* (X - min_) / scale_ on scaled rows
inverse_transform(self, rows) ==
    [i \in DOMAIN rows |->
        [ix |-> rows[i].ix,
         f |-> [c \in DOMAIN rows[i].f |-> FDiv(FSub(rows[i].f[c], self.min_[c]), self.scale_[c])]]]

\* ------------------------------------------------------------- torch
\* StockDataset(features, labels)
StockDataset(features, labels) == [features |-> features, labels |-> labels]

\* StockDataset.__len__
DatasetLen(ds) == Len(ds.features)

\* StockDataset.__getitem__
GetItem(ds, idx) == [x |-> ds.features[idx], y |-> ds.labels[idx]]

\* DataLoader(dataset, batch_size=..., shuffle=...), drop_last=False
DataLoader(ds, bs, shuffle) == [dataset |-> ds, batch_size |-> bs, shuffle |-> shuffle]

\* the orders a RandomSampler may draw for n items: reversed, or rotated by
\* one (a sample of the n! permutations)
Perms(n) == {[i \in 1..n |-> n + 1 - i], [i \in 1..n |-> (i % n) + 1]}

\* BatchSampler: consecutive runs of at most bs positions
RECURSIVE Chunks(_, _)
Chunks(order, bs) ==
    IF order = <<>> THEN <<>>
    ELSE IF Len(order) <= bs THEN <<order>>
    ELSE <<SubSeq(order, 1, bs)>> \o Chunks(SubSeq(order, bs + 1, Len(order)), bs)

\* iter(loader): the batches of one pass, as positions into the dataset
Iter(loader, order) == Chunks(order, loader.batch_size)

\* the orders iter(loader) may take
Orders(loader) ==
    IF loader.shuffle THEN Perms(DatasetLen(loader.dataset))
    ELSE {[i \in 1..DatasetLen(loader.dataset) |-> i]}

\* the collated batch: the dataset's items at the batch's positions
Collate(loader, batch) == [k \in DOMAIN batch |-> GetItem(loader.dataset, batch[k])]

\* mutant: the model object of the call before is used again
MLP_reused(input_dim, rng) == frame.model

\* MLP(input_dim): a module starts in training mode; steps counts the
\* optimizer steps applied to its parameters, grad lists the rows whose loss
\* gradient is accumulated in .grad, init_draw is the generator state the
\* initial weights were drawn at
MLP(input_dim, rng) ==
    [input_dim |-> input_dim, training |-> TRUE, steps |-> 0, grad |-> <<>>,
     init_draw |-> rng]

\* model.train() and model.eval()
train(m) == [m EXCEPT !.training = TRUE]

\* mutant: model.eval() left out
eval_missing(m) == m

eval(m) == [m EXCEPT !.training = FALSE]

\* nn.Dropout(0.2) draws a mask in training mode and is the identity otherwise
DropoutActive(m) == m.training

\* MLP.forward on rows: fc1, relu, dropout, fc2, relu, dropout, fc3
forward(m, rows) ==
    [rows |-> IxOf(rows), dropout |-> DropoutActive(m), steps |-> m.steps]

\* the generator draws of one forward pass: two dropout masks in training mode
ForwardDraws(m) == IF DropoutActive(m) THEN 2 ELSE 0

\* torch.optim.Adam(model.parameters(), lr=0.001); t counts its steps
Adam == [lr |-> <<1, 1000>>, t |-> 0]

\* mutant: optimizer.zero_grad() left out
zero_grad_missing(grad) == grad

\* optimizer.zero_grad()
zero_grad(grad) == <<>>

\* loss.backward() adds the batch's gradient to what .grad holds
backward(grad, rows) == grad \o IxOf(rows)

\* np.sqrt(mean_squared_error(y_true, y_pred)): what it was computed from
rmse(y_true, y_pred) == [y_true |-> y_true, y_pred |-> y_pred]

\* ------------------------------------------------------------- frames
NoModel == [input_dim |-> 0, training |-> FALSE, steps |-> 0, grad |-> <<>>, init_draw |-> 0]

NoLoader == DataLoader(StockDataset(<<>>, <<>>), 0, FALSE)

NoPreds == [rows |-> <<>>, dropout |-> FALSE, steps |-> 0]

\* the locals before any call has bound one of them
NoFrame ==
    [pc |-> "idle", company_name |-> "", visualize |-> FALSE,
     company_data |-> <<>>, X |-> <<>>, y |-> <<>>,
     X_train |-> <<>>, X_val |-> <<>>, X_test |-> <<>>,
     y_train |-> <<>>, y_val |-> <<>>, y_test |-> <<>>,
     scaler_X |-> MinMaxScaler, scaler_y |-> MinMaxScaler,
     train_loader |-> NoLoader, val_loader |-> NoLoader, test_loader |-> NoLoader,
     model |-> NoModel, optimizer |-> Adam,
     epoch |-> 0, batches |-> <<>>, epoch_rows |-> <<>>,
     last_step |-> [grad |-> <<>>, batch |-> <<>>, training |-> FALSE, dropout |-> FALSE],
     train_preds |-> NoPreds, test_preds |-> NoPreds,
     train_rmse |-> rmse(<<>>, NoPreds), test_rmse |-> rmse(<<>>, NoPreds),
     exc |-> "none"]

\* entering process_and_train binds its parameters
Enter(f, name, vis) ==
    [f EXCEPT !.pc = "extract", !.company_name = name, !.visualize = vis]

\* leaving it, by return or by an exception
Leave(f) == [f EXCEPT !.pc = "idle"]

\* ------------------------------------------------------ process_and_train
\* lines 148-152: the company's rows in table order, features and label
CompanyData(table, name) ==
    SelectSeq([i \in DOMAIN table |-> [ix |-> i, rec |-> table[i]]],
              LAMBDA r : r.rec.Symbol = name)

Features(cd) ==
    [i \in DOMAIN cd |->
        [ix |-> cd[i].ix,
         f |-> [c \in FeatureCols |->
                   CASE c = "Open" -> cd[i].rec.Open
                     [] c = "High" -> cd[i].rec.High
                     [] c = "Low" -> cd[i].rec.Low
                     [] c = "Last" -> cd[i].rec.Last
                     [] OTHER -> cd[i].rec.Close]]]

Label(cd) == [i \in DOMAIN cd |-> [ix |-> cd[i].ix, f |-> [c \in {LabelCol} |-> cd[i].rec.VWAP]]]

Extract ==
    /\ frame.pc = "extract"
    /\ LET cd == CompanyData(data, frame.company_name)
       IN  frame' = [frame EXCEPT !.pc = "split", !.company_data = cd,
                                  !.X = Features(cd), !.y = Label(cd)]
    /\ UNCHANGED <<data, dpc, companies, visualize_companies, results, loop_i,
                   torch_rng, output>>

\* lines 155-156: the outer split, then the inner split of its train part; a
\* ValueError of either leaves the function
Split ==
    /\ frame.pc = "split"
    /\ LET oX == train_test_split(frame.X, outer_test_size)
           oy == train_test_split(frame.y, outer_test_size)
           iX == train_test_split(oX.train, inner_test_size)
           iy == train_test_split(oy.train, inner_test_size)
       IN  frame' =
             IF oX.raises
             THEN [frame EXCEPT !.pc = "raised", !.exc = "ValueError"]
             ELSE IF iX.raises
             THEN [frame EXCEPT !.pc = "raised", !.exc = "ValueError",
                                !.X_train = oX.train, !.X_test = oX.test,
                                !.y_train = oy.train, !.y_test = oy.test]
             ELSE [frame EXCEPT !.pc = "scale_X",
                                !.X_train = iX.train, !.X_val = iX.test, !.X_test = oX.test,
                                !.y_train = iy.train, !.y_val = iy.test, !.y_test = oy.test]
    /\ UNCHANGED <<data, dpc, companies, visualize_companies, results, loop_i,
                   torch_rng, output>>

\* lines 159-162
ScaleX ==
    /\ frame.pc = "scale_X"
    /\ LET a == fit_transform(MinMaxScaler, frame.X_train)
           b == transform(a.self, frame.X_val)
           c == transform(b.self, frame.X_test)
       IN  frame' = [frame EXCEPT !.pc = "scale_y", !.scaler_X = c.self,
                                  !.X_train = a.out, !.X_val = b.out, !.X_test = c.out]
    /\ UNCHANGED <<data, dpc, companies, visualize_companies, results, loop_i,
                   torch_rng, output>>

\* lines 164-167
ScaleY ==
    /\ frame.pc = "scale_y"
    /\ LET a == fit_transform(MinMaxScaler, frame.y_train)
           b == transform(a.self, frame.y_val)
           c == transform(b.self, frame.y_test)
       IN  frame' = [frame EXCEPT !.pc = "setup", !.scaler_y = c.self,
                                  !.y_train = a.out, !.y_val = b.out, !.y_test = c.out]
    /\ UNCHANGED <<data, dpc, companies, visualize_companies, results, loop_i,
                   torch_rng, output>>

\* lines 171-188: datasets, loaders, a new model (its weights drawn from the
\* global generator), a new optimizer, and the epoch loop about to begin
Setup ==
    /\ frame.pc = "setup"
    /\ frame' = [frame EXCEPT
         !.pc = "train",
         !.train_loader = DataLoader(StockDataset(frame.X_train, frame.y_train), batch_size, TRUE),
         !.val_loader = DataLoader(StockDataset(frame.X_val, frame.y_val), batch_size, FALSE),
         !.test_loader = DataLoader(StockDataset(frame.X_test, frame.y_test), batch_size, FALSE),
         !.model = MLP(Cardinality(Cols(frame.X_train)), torch_rng),
         !.optimizer = Adam,
         !.epoch = 0, !.batches = <<>>]
    /\ torch_rng' = torch_rng + 1
    /\ UNCHANGED <<data, dpc, companies, visualize_companies, results, loop_i, output>>

\* lines 189-191: the next epoch starts: model.train(), and iterating the
\* train loader draws a new order
EpochStart ==
    /\ frame.pc = "train"
    /\ frame.batches = <<>>
    /\ frame.epoch < n_epochs
    /\ \E order \in Orders(frame.train_loader) :
         frame' = [frame EXCEPT !.model = train(frame.model),
                                !.batches = Iter(frame.train_loader, order),
                                !.epoch_rows = <<>>]
    /\ torch_rng' = torch_rng + 1
    /\ UNCHANGED <<data, dpc, companies, visualize_companies, results, loop_i, output>>

\* lines 192-196, one batch: zero_grad, forward, loss, backward, step; after
\* the epoch's last batch the epoch counter advances
TrainBatch ==
    /\ frame.pc = "train"
    /\ frame.batches # <<>>
    /\ LET items == Collate(frame.train_loader, Head(frame.batches))
           batch_X == [k \in DOMAIN items |-> items[k].x]
           outputs == forward(frame.model, batch_X)
           grad == backward(zero_grad(frame.model.grad), batch_X)
       IN  /\ frame' = [frame EXCEPT
                 !.model = [frame.model EXCEPT !.grad = grad, !.steps = @ + 1],
                 !.optimizer = [frame.optimizer EXCEPT !.t = @ + 1],
                 !.last_step = [grad |-> grad, batch |-> IxOf(batch_X),
                                training |-> frame.model.training,
                                dropout |-> outputs.dropout],
                 !.epoch_rows = @ \o IxOf(batch_X),
                 !.batches = Tail(@),
                 !.epoch = IF Tail(frame.batches) = <<>> THEN @ + 1 ELSE @]
           /\ torch_rng' = torch_rng + ForwardDraws(frame.model)
    /\ UNCHANGED <<data, dpc, companies, visualize_companies, results, loop_i, output>>

\* line 199, reached when the for loop has run n_epochs times
EvalMode ==
    /\ frame.pc = "train"
    /\ frame.batches = <<>>
    /\ frame.epoch >= n_epochs
    /\ frame' = [frame EXCEPT !.pc = "predict", !.model = eval(frame.model)]
    /\ UNCHANGED <<data, dpc, companies, visualize_companies, results, loop_i,
                   torch_rng, output>>

\* lines 200-205: predictions on the train and test arrays and the two RMSEs
\* against the arrays y_train and y_test as they are now (scaled)
Predict ==
    /\ frame.pc = "predict"
    /\ LET tp == forward(frame.model, frame.X_train)
           sp == forward(frame.model, frame.X_test)
       IN  /\ frame' = [frame EXCEPT
                 !.pc = IF frame.visualize THEN "visualize" ELSE "return",
                 !.train_preds = tp, !.test_preds = sp,
                 !.train_rmse = rmse(frame.y_train, tp),
                 !.test_rmse = rmse(frame.y_test, sp)]
           /\ torch_rng' = torch_rng + ForwardDraws(frame.model)
                                     + ForwardDraws(frame.model)
    /\ UNCHANGED <<data, dpc, companies, visualize_companies, results, loop_i, output>>

\* lines 219-228: the plot of the inverse-scaled test labels and predictions
Visualize ==
    /\ frame.pc = "visualize"
    /\ output' = Append(output,
         [kind |-> "plot", company |-> frame.company_name,
          true |-> inverse_transform(frame.scaler_y, frame.y_test),
          predicted |-> frame.test_preds])
    /\ frame' = [frame EXCEPT !.pc = "return"]
    /\ UNCHANGED <<data, dpc, companies, visualize_companies, results, loop_i, torch_rng>>

\* line 230
Return ==
    /\ frame.pc = "return"
    /\ frame' = [frame EXCEPT !.pc = "returned"]
    /\ UNCHANGED <<data, dpc, companies, visualize_companies, results, loop_i,
                   torch_rng, output>>

\* ------------------------------------------------------ module level
\* lines 236-241: the symbols, the empty results, and the n_visualize symbols
\* np.random.choice draws without replacement (a ValueError when there are
\* fewer symbols than that)
Start ==
    /\ dpc = "start"
    /\ companies' = Unique(data)
    /\ results' = <<>>
    /\ IF Len(companies') < n_visualize
       THEN dpc' = "aborted" /\ visualize_companies' = {}
       ELSE /\ dpc' = "loop"
            /\ \E S \in SUBSET Range(companies') :
                 Cardinality(S) = n_visualize /\ visualize_companies' = S
    /\ UNCHANGED <<data, loop_i, frame, torch_rng, output>>

\* lines 243-244: the loop takes the next company and calls process_and_train
Call ==
    /\ dpc = "loop"
    /\ loop_i < Len(companies)
    /\ loop_i' = loop_i + 1
    /\ frame' = Enter(frame, companies[loop_i + 1],
                      companies[loop_i + 1] \in visualize_companies)
    /\ dpc' = "in_call"
    /\ UNCHANGED <<data, companies, visualize_companies, results, torch_rng, output>>

\* line 245: the call returned; its two values are stored under the symbol
Store ==
    /\ dpc = "in_call"
    /\ frame.pc = "returned"
    /\ results' = [c \in DOMAIN results \cup {frame.company_name} |->
                     IF c = frame.company_name
                     THEN [TrainRMSE |-> frame.train_rmse, TestRMSE |-> frame.test_rmse]
                     ELSE results[c]]
    /\ frame' = Leave(frame)
    /\ dpc' = "loop"
    /\ UNCHANGED <<data, companies, visualize_companies, loop_i, torch_rng, output>>

\* nothing catches an exception of the call: the script ends with a traceback
Propagate ==
    /\ dpc = "in_call"
    /\ frame.pc = "raised"
    /\ frame' = Leave(frame)
    /\ dpc' = "aborted"
    /\ UNCHANGED <<data, companies, visualize_companies, results, loop_i, torch_rng, output>>

\* lines 248-253: the results table and its summary are displayed
Report ==
    /\ dpc = "loop"
    /\ loop_i = Len(companies)
    /\ output' = Append(output, [kind |-> "table", rows |-> DOMAIN results])
    /\ dpc' = "done"
    /\ UNCHANGED <<data, companies, visualize_companies, results, loop_i, frame, torch_rng>>

\* ------------------------------------------------------ specification
\* the script run on a table
ScriptInit ==
    /\ data \in DriverTables
    /\ dpc = "start"
    /\ frame = NoFrame

\* process_and_train called on a table by itself (visualize is set for the
\* tables with an even number of rows)
DirectInit ==
    /\ data \in CallTables
    /\ dpc = "direct"
    /\ frame = Enter(NoFrame, SymbolNames[1], Len(data) % 2 = 0)

Init ==
    /\ ScriptInit \/ DirectInit
    /\ companies = <<>>
    /\ visualize_companies = {}
    /\ results = <<>>
    /\ loop_i = 0
    /\ torch_rng = 0
    /\ output = <<>>

Next ==
    \/ Start
    \/ Call
    \/ Store
    \/ Propagate
    \/ Report
    \/ Extract
    \/ Split
    \/ ScaleX
    \/ ScaleY
    \/ Setup
    \/ EpochStart
    \/ TrainBatch
    \/ EvalMode
    \/ Predict
    \/ Visualize
    \/ Return

Spec == Init /\ [][Next]_vars

\* ======================================================== properties
\* The properties are stated against the table: a row of a segment is
\* compared with the table row at its position ix.

\* the call has just partitioned its series without raising: the state the
\* two splits leave, before anything is scaled
Partitioned == frame.pc = "scale_X"

\* the positions in the table of the rows of the call's company
OwnIx == {i \in DOMAIN data : data[i].Symbol = frame.company_name}

\* N: the number of rows of the call's company
OwnN == Cardinality(OwnIx)

\* a finite set of integers as an ascending sequence
RECURSIVE Ascending(_)
Ascending(S) == IF S = {} THEN <<>> ELSE <<SetMin(S)>> \o Ascending(S \ {SetMin(S)})

\* C1: when process_and_train has partitioned a series of N rows, the
\* lengths of train, validation and test add up to N, and train followed by
\* validation followed by test is exactly the company's rows in table (date)
\* order: contiguous, not overlapping, nothing moved, dropped or duplicated;
\* features and labels are cut at the same places, and right after the split
\* the rows still carry the values of the series.
C1_PartitionCoversSeries ==
    Partitioned =>
        /\ Len(frame.X_train) + Len(frame.X_val) + Len(frame.X_test) = OwnN
        /\ IxOf(frame.X_train) \o IxOf(frame.X_val) \o IxOf(frame.X_test) = Ascending(OwnIx)
        /\ IxOf(frame.y_train) = IxOf(frame.X_train)
        /\ IxOf(frame.y_val) = IxOf(frame.X_val)
        /\ IxOf(frame.y_test) = IxOf(frame.X_test)
        /\ frame.X_train \o frame.X_val \o frame.X_test = frame.X
        /\ frame.y_train \o frame.y_val \o frame.y_test = frame.y
        /\ \A i \in DOMAIN frame.X :
             /\ frame.X[i].f["Close"] = data[frame.X[i].ix].Close
             /\ frame.y[i].f[LabelCol] = data[frame.y[i].ix].VWAP

\* a series of 23 rows, partitioned, with more than one row in each segment
C1_Witness ==
    /\ Partitioned
    /\ OwnN = 23
    /\ Len(frame.X_train) > 1 /\ Len(frame.X_val) > 1 /\ Len(frame.X_test) > 1

\* C2: for every N that is partitioned, test is the last 20% of the rows,
\* validation the 10% of the remaining rows right before it, train the rest:
\* test is N/5 rounded up, validation a tenth of the N - test remaining rows
\* rounded up, so test and validation are less than one row above 20% and
\* 8% of N and train less than two rows below 72%; when 20%, 8% and 72% of N
\* are whole numbers (N a multiple of 25) the sizes are exactly those.
C2_Proportions ==
    Partitioned =>
        LET n == OwnN
            te == Len(frame.X_test)
            va == Len(frame.X_val)
            tr == Len(frame.X_train)
            all == Ascending(OwnIx)
        IN  /\ tr + va + te = n
            /\ 5 * te >= n /\ 5 * te < n + 5
            /\ 10 * va >= n - te /\ 10 * va < (n - te) + 10
            /\ 50 * va >= 4 * n - 5 /\ 50 * va < 4 * n + 50
            /\ 50 * tr > 36 * n - 100 /\ 50 * tr <= 36 * n + 5
            /\ IxOf(frame.X_test) = SubSeq(all, n - te + 1, n)
            /\ IxOf(frame.X_val) = SubSeq(all, n - te - va + 1, n - te)
            /\ n % 25 = 0 => /\ 5 * te = n
                             /\ 25 * va = 2 * n
                             /\ 25 * tr = 18 * n

\* 50 rows: 36 train, 4 validation, 10 test
C2_Witness ==
    /\ Partitioned
    /\ OwnN = 50
    /\ Len(frame.X_train) = 36 /\ Len(frame.X_val) = 4 /\ Len(frame.X_test) = 10

\* C6: partitioning raises exactly when N is below 3, the smallest N for which
\* train, validation and test are all non-empty: a call that raised had fewer
\* than 3 rows and raised a ValueError out of the split, the first call of a
\* run having fitted no scaler, built no model and drawn nothing by then; a
\* call that went on had at least 3 rows and holds three non-empty segments.
C6_MinimumViableN ==
    /\ frame.pc = "raised" =>
         /\ OwnN < 3
         /\ frame.exc = "ValueError"
         /\ loop_i <= 1 => /\ frame.scaler_X = MinMaxScaler
                           /\ frame.scaler_y = MinMaxScaler
                           /\ frame.model = NoModel
                           /\ torch_rng = 0
    /\ Partitioned =>
         /\ OwnN >= 3
         /\ frame.exc = "none"
         /\ Len(frame.X_train) >= 1 /\ Len(frame.X_val) >= 1 /\ Len(frame.X_test) >= 1
         /\ Len(frame.y_train) >= 1 /\ Len(frame.y_val) >= 1 /\ Len(frame.y_test) >= 1

\* a series of 2 rows raised in the inner split
C6_Witness ==
    /\ frame.pc = "raised"
    /\ OwnN = 2
    /\ Len(frame.X_train) = 1 /\ Len(frame.X_test) = 1

\* the value the table holds at position i in column c
RawVal(i, c) ==
    CASE c = "Open" -> data[i].Open
      [] c = "High" -> data[i].High
      [] c = "Low" -> data[i].Low
      [] c = "Last" -> data[i].Last
      [] c = "Close" -> data[i].Close
      [] OTHER -> data[i].VWAP

AllCols == FeatureCols \cup {LabelCol}

\* the table positions of the rows of the train segment
TrainIx == Range(IxOf(frame.X_train))

\* the smallest and largest value of column c over the train segment
TrainMin(c) == SetMin({RawVal(i, c) : i \in TrainIx})

TrainMax(c) == SetMax({RawVal(i, c) : i \in TrainIx})

\* both scalers have been applied and nothing else has happened since
Scaled == frame.pc = "setup"

\* the scaled arrays of column c: features or labels
SegTrain(c) == IF c = LabelCol THEN frame.y_train ELSE frame.X_train

SegHeldOut(c) ==
    IF c = LabelCol THEN frame.y_val \o frame.y_test ELSE frame.X_val \o frame.X_test

\* C3: in one run each scaler is fit exactly once, on the train segment only:
\* once features and labels are scaled, each scaler has been fit one time and
\* the minimum and maximum it stores for a column are those of the column over
\* the rows of the train segment, whatever the validation and test rows hold
\* (so two series with the same train segment give the same scaler parameters).
C3_FitOnTrainOnly ==
    Scaled =>
        /\ frame.scaler_X.n_fits = 1
        /\ frame.scaler_y.n_fits = 1
        /\ DOMAIN frame.scaler_X.data_min = FeatureCols
        /\ DOMAIN frame.scaler_y.data_min = {LabelCol}
        /\ \A c \in FeatureCols :
             /\ frame.scaler_X.data_min[c] = TrainMin(c)
             /\ frame.scaler_X.data_max[c] = TrainMax(c)
        /\ frame.scaler_y.data_min[LabelCol] = TrainMin(LabelCol)
        /\ frame.scaler_y.data_max[LabelCol] = TrainMax(LabelCol)

\* scaled, with a validation or test row above the training maximum and one
\* below the training minimum of the label: a fit that saw them would differ
C3_Witness ==
    /\ Scaled
    /\ Len(frame.X_train) >= 2
    /\ \E r \in Range(SegHeldOut(LabelCol)) : RawVal(r.ix, LabelCol) > TrainMax(LabelCol)
    /\ \E r \in Range(SegHeldOut(LabelCol)) : RawVal(r.ix, LabelCol) < TrainMin(LabelCol)

ConstCols == {c \in AllCols : TrainMin(c) = TrainMax(c)}

NoNaN(rows) == \A r \in Range(rows) : \A c \in DOMAIN r.f : ~IsNaN(r.f[c])

\* C8: a column whose training values are all equal is scaled without a
\* division by zero: its divisor is 1, every training value of it maps to 0,
\* no scaled value of any segment is NaN, nothing is raised, and the run goes
\* on to train and to evaluate (a run that returns has taken all its optimizer
\* steps and computed both RMSEs on labels that hold no NaN).
C8_ZeroVariance ==
    /\ Scaled =>
         /\ frame.exc = "none"
         /\ \A c \in ConstCols :
              /\ \A r \in Range(SegTrain(c)) : r.f[c] = Zero
              /\ (IF c = LabelCol THEN frame.scaler_y ELSE frame.scaler_X).scale_[c] = One
         /\ NoNaN(frame.X_train) /\ NoNaN(frame.X_val) /\ NoNaN(frame.X_test)
         /\ NoNaN(frame.y_train) /\ NoNaN(frame.y_val) /\ NoNaN(frame.y_test)
    /\ (frame.pc = "returned" /\ ConstCols # {}) =>
         /\ frame.exc = "none"
         /\ frame.model.steps > 0
         /\ frame.train_rmse.y_true = frame.y_train /\ NoNaN(frame.train_rmse.y_true)
         /\ frame.test_rmse.y_true = frame.y_test /\ NoNaN(frame.test_rmse.y_true)

\* a run that returned although the label was constant over a train segment
\* of two rows or more
C8_Witness ==
    /\ frame.pc = "returned"
    /\ Len(frame.X_train) >= 2
    /\ LabelCol \in ConstCols
    /\ frame.model.steps > 0

\* the number of batches of one epoch of the running call
NumBatches == (Len(frame.X_train) + 63) \div 64

\* the call has left the epoch loop
Trained == frame.pc \in {"predict", "visualize", "return", "returned"}

\* the call has computed its predictions and RMSEs
Evaluated == frame.pc \in {"visualize", "return", "returned"}

\* the table positions of the rows at the batch positions still to come
PendingRows ==
    [k \in DOMAIN frame.batches |->
        [j \in DOMAIN frame.batches[k] |->
            frame.train_loader.dataset.features[frame.batches[k][j]].ix]]

RECURSIVE Flatten(_)
Flatten(qs) == IF qs = <<>> THEN <<>> ELSE Head(qs) \o Flatten(Tail(qs))

IsPermutationOf(q, S) == Len(q) = Cardinality(S) /\ Range(q) = S

\* C9: the training loop runs exactly 50 epochs without leaving early; in
\* every epoch the batches taken and the batches to come hold every row of
\* the train segment exactly once, each batch has at most 64 rows and only
\* the last may have fewer, so the optimizer has taken 50 * ceil(len(train)/64)
\* steps when the loop ends; the gradient of every step is that of its batch
\* alone; every batch is made of train rows, never of validation or test
\* rows, and the validation segment, though built into a loader, is read
\* neither by a batch nor by the predictions and RMSEs.
C9_TrainingLoop ==
    /\ frame.pc = "train" =>
         LET taken == IF frame.batches = <<>> THEN 0 ELSE NumBatches - Len(frame.batches)
         IN  /\ frame.epoch <= 50
             /\ frame.model.steps = frame.epoch * NumBatches + taken
             /\ frame.optimizer.t = frame.model.steps
             /\ frame.val_loader.dataset.features = frame.X_val
             /\ \A k \in DOMAIN frame.batches :
                  /\ Len(frame.batches[k]) >= 1 /\ Len(frame.batches[k]) <= 64
                  /\ k < Len(frame.batches) => Len(frame.batches[k]) = 64
             /\ frame.batches # <<>> =>
                  IsPermutationOf(frame.epoch_rows \o Flatten(PendingRows), TrainIx)
             /\ (frame.batches = <<>> /\ frame.epoch > 0) =>
                  IsPermutationOf(frame.epoch_rows, TrainIx)
             /\ frame.model.steps > 0 =>
                  /\ frame.last_step.grad = frame.last_step.batch
                  /\ frame.model.grad = frame.last_step.batch
                  /\ Len(frame.last_step.batch) <= 64
                  /\ Range(frame.last_step.batch) \subseteq TrainIx
                  /\ Range(frame.last_step.batch) \cap Range(IxOf(frame.X_val)) = {}
                  /\ Range(frame.last_step.batch) \cap Range(IxOf(frame.X_test)) = {}
    /\ Trained =>
         /\ frame.epoch = 50
         /\ frame.batches = <<>>
         /\ frame.model.steps = 50 * NumBatches
         /\ frame.optimizer.t = 50 * NumBatches
    /\ Evaluated =>
         /\ frame.train_preds.rows = IxOf(frame.X_train)
         /\ frame.test_preds.rows = IxOf(frame.X_test)
         /\ IxOf(frame.train_rmse.y_true) = IxOf(frame.X_train)
         /\ IxOf(frame.test_rmse.y_true) = IxOf(frame.X_test)
         /\ Range(IxOf(frame.X_val)) \cap
              (Range(frame.train_preds.rows) \cup Range(frame.test_preds.rows)) = {}

\* a run over a train segment of more than 64 rows that returned after 100
\* optimizer steps, the last on a batch of fewer than 64 rows
C9_Witness ==
    /\ frame.pc = "returned"
    /\ Len(frame.X_train) > 64
    /\ frame.model.steps = 100
    /\ Len(frame.last_step.batch) < 64

\* the scaled value of the label at table position i under a fit on the train
\* segment
ScaledLabel(i) ==
    LET lo == TrainMin(LabelCol)
        hi == TrainMax(LabelCol)
    IN  Frac(RawVal(i, LabelCol) - lo, IF hi = lo THEN 1 ELSE hi - lo)

\* C10: the model is in train mode, with dropout active, at every optimizer
\* step of every epoch; it is in eval mode only once the last step of the
\* last epoch is taken; the train and test predictions that the RMSEs (and
\* the plot, when there is one) use are computed in eval mode, dropout being
\* the identity, on the parameters all steps have produced, and no step
\* follows them; the RMSEs compare them with the scaled labels.
C10_ModeOrdering ==
    /\ frame.pc = "train" =>
         /\ frame.model.training
         /\ frame.model.steps > 0 => frame.last_step.training /\ frame.last_step.dropout
    /\ Trained =>
         /\ ~frame.model.training
         /\ frame.model.steps = 50 * NumBatches
         /\ frame.last_step.training /\ frame.last_step.dropout
    /\ Evaluated =>
         /\ ~frame.train_preds.dropout /\ ~frame.test_preds.dropout
         /\ frame.train_preds.steps = 50 * NumBatches
         /\ frame.test_preds.steps = 50 * NumBatches
         /\ frame.train_rmse.y_pred = frame.train_preds
         /\ frame.test_rmse.y_pred = frame.test_preds
         /\ \A r \in Range(frame.train_rmse.y_true) \cup Range(frame.test_rmse.y_true) :
              r.f[LabelCol] = ScaledLabel(r.ix)
    /\ (frame.pc \in {"return", "returned"} /\ frame.visualize) =>
         /\ output # <<>>
         /\ output[Len(output)].kind = "plot"
         /\ output[Len(output)].company = frame.company_name
         /\ output[Len(output)].predicted = frame.test_preds

\* a visualized run that returned, whose test labels are not all equal to
\* their scaled values
C10_Witness ==
    /\ frame.pc = "returned"
    /\ frame.visualize
    /\ frame.model.steps = 50
    /\ \E r \in Range(frame.test_rmse.y_true) :
         r.f[LabelCol] # FromInt(RawVal(r.ix, LabelCol))

\* the table positions of the rows of symbol c
RowsOfSymbol(c) == {i \in DOMAIN data : data[i].Symbol = c}

\* the companies whose calls have returned
Stored == {companies[k] : k \in 1..(IF dpc = "in_call" THEN loop_i - 1 ELSE loop_i)}

\* what C7 says of the objects and inputs of a call, in any call of a run:
\* the model entering the epoch loop is new (no step taken on it, no gradient
\* held, in train mode, its weights drawn in this call) and so is the
\* optimizer; each scaler has been fit once, on rows of this company, and the
\* scaled training inputs are those rows under that fit; and the results
\* table holds one entry per company whose call returned, each computed from
\* that company's own rows after the steps of its own run.
FreshObjectsOwnRows ==
    /\ (frame.pc = "train" /\ frame.epoch = 0 /\ frame.batches = <<>>) =>
         /\ frame.model.steps = 0
         /\ frame.model.grad = <<>>
         /\ frame.model.training
         /\ frame.model.init_draw = torch_rng - 1
         /\ frame.optimizer.t = 0
         /\ frame.train_loader.dataset.features = frame.X_train
         /\ frame.train_loader.dataset.labels = frame.y_train
    /\ Scaled =>
         /\ frame.scaler_X.n_fits = 1 /\ frame.scaler_y.n_fits = 1
         /\ TrainIx \subseteq OwnIx
         /\ \A c \in FeatureCols :
              /\ frame.scaler_X.data_min[c] = TrainMin(c)
              /\ frame.scaler_X.data_max[c] = TrainMax(c)
              /\ \A r \in Range(frame.X_train) :
                   r.f[c] = Frac(RawVal(r.ix, c) - TrainMin(c),
                                 IF TrainMax(c) = TrainMin(c) THEN 1
                                 ELSE TrainMax(c) - TrainMin(c))
         /\ frame.scaler_y.data_min[LabelCol] = TrainMin(LabelCol)
         /\ frame.scaler_y.data_max[LabelCol] = TrainMax(LabelCol)
         /\ \A r \in Range(frame.y_train) : r.f[LabelCol] = ScaledLabel(r.ix)
    /\ dpc \in {"loop", "in_call", "done"} =>
         /\ DOMAIN results = Stored
         /\ \A c \in DOMAIN results :
              /\ Range(IxOf(results[c].TrainRMSE.y_true)) \subseteq RowsOfSymbol(c)
              /\ Range(IxOf(results[c].TestRMSE.y_true)) \subseteq RowsOfSymbol(c)
              /\ Range(results[c].TrainRMSE.y_pred.rows) \subseteq RowsOfSymbol(c)
              /\ Range(results[c].TestRMSE.y_pred.rows) \subseteq RowsOfSymbol(c)
              /\ results[c].TrainRMSE.y_pred.steps =
                   50 * ((Len(results[c].TrainRMSE.y_true) + 63) \div 64)
              /\ results[c].TestRMSE.y_pred.steps = results[c].TrainRMSE.y_pred.steps

\* C7 as stated: besides the above, nothing but the results table and the
\* set of companies to visualize is carried from one loop iteration to the
\* next, so every call starts from the generator state the first call
\* started from.
C7_Original ==
    /\ FreshObjectsOwnRows
    /\ frame.pc = "extract" => torch_rng = 0

\* C7 (amended): every call creates its own feature scaler, label scaler,
\* model and optimizer and uses none of an earlier call; a company's scaler
\* parameters and training inputs depend only on its own rows; and what is
\* carried from one loop iteration to the next is the results table, the set
\* of companies to visualize and the state of torch's global generator, which
\* every call advances (weight initialisation, one shuffle per epoch, dropout
\* masks), so that a later call starts from a later generator state.
C7_FreshPerCall ==
    /\ FreshObjectsOwnRows
    /\ (frame.pc = "extract" /\ loop_i <= 1) => torch_rng = 0
    /\ (frame.pc = "extract" /\ loop_i > 1) => torch_rng >= (loop_i - 1) * 151
    /\ frame.pc = "returned" => torch_rng >= frame.model.init_draw + 151

\* the third call of a run about to enter its epoch loop with a new model,
\* two entries in the results table and the generator advanced by two runs
C7_Witness ==
    /\ loop_i = 3
    /\ frame.pc = "train" /\ frame.epoch = 0 /\ frame.batches = <<>>
    /\ Cardinality(DOMAIN results) = 2
    /\ frame.model.steps = 0
    /\ torch_rng >= 302

\* the companies whose series cannot be partitioned
Failing == {c \in Range(companies) : Cardinality(RowsOfSymbol(c)) < 3}

\* C5: a company whose pipeline fails does not abort the driver loop, and
\* when the run ends the results table has one row for every company that
\* did not fail: as many rows as there are symbols less the failed ones.
C5_FailureIsolation ==
    /\ ~(dpc = "aborted" /\ loop_i > 0)
    /\ dpc = "done" =>
         /\ output # <<>> /\ output[Len(output)].kind = "table"
         /\ output[Len(output)].rows = Range(companies) \ Failing
         /\ Cardinality(DOMAIN results) = Len(companies) - Cardinality(Failing)

====
